---- MODULE Spec2Model ----
(***************************************************************************)
(* Model of the "Fix Unlinked Components" Figma plugin sandbox code        *)
(* (src/src/plugin/code.ts): the host document, findUnlinkedInstances,     *)
(* findMatchingComponents, replaceInstances and the figma.ui.onmessage     *)
(* handler; and of the App component of its UI (src/src/ui/App.tsx) with   *)
(* the two message channels between them.                                  *)
(***************************************************************************)
EXTENDS Integers, Sequences, FiniteSets, TLC

(* ------------------------------ bounds --------------------------------- *)
\* longest instanceIds array of a replace message
MaxIds == 2
\* user edits of the document (relink, delete a component, switch page)
MaxEdits == 1
\* messages the onmessage handler processes
MaxRequests == 2
\* longest record array handed to findMatchingComponents on its own
MaxRecords == 2
\* messages the UI has posted that the plugin has not yet taken
MaxQueue == 2

(* --------------------------- the host document ------------------------- *)
\* figma.root.children, in document order
Pages == <<1, 2>>
PageSet == {1, 2}
PageName(p) == IF p = 1 THEN "Page 1" ELSE "Page 2"

\* INSTANCE nodes, in the traversal order of page.findAll
AllInstances == <<1, 2, 3>>
Instances == {1, 2, 3}
\* a FRAME node, an id that resolves to no node, an unnamed GROUP node
FrameId == 4
MissingId == 5
GroupId == 6
NodeIds == Instances \cup {FrameId, MissingId}
\* page nodes as parents
PageNode(p) == 20 + p

\* node.type of the scene nodes the plugin reads
NodeType(n) ==
  CASE n \in Instances -> "INSTANCE"
    [] n = FrameId -> "FRAME"
    [] n = GroupId -> "GROUP"
    [] n \in {PageNode(1), PageNode(2)} -> "PAGE"
    [] OTHER -> "NONE"

\* ComponentNode objects: attached to a page, or orphaned (parent null)
Components == {11, 12, 13, 14, 15, 16, 17}
AllComponents == <<11, 12, 13, 14, 15, 16, 17>>

NullId == 0
NullName == "<null>"
Undefined == "<undefined>"

Names == {"", "Card", "card", "CARD", "Car", "Badge", "Missing"}

VARIABLES
  curPage,        \* figma.currentPage
  selection,      \* figma.currentPage.selection
  pagesLoaded,    \* figma.loadAllPagesAsync() has completed
  instName,       \* InstanceNode.name
  instMain,       \* what getMainComponentAsync() resolves to (NullId: null)
  compName,       \* ComponentNode.name
  compParent,     \* ComponentNode.parent: a page, or NullId when orphaned
  compRemoved,    \* ComponentNode.removed
  compRemote,     \* ComponentNode.remote
  compType,       \* ComponentNode.type
  pluginOpen,     \* the plugin runs (figma.closePlugin not yet called)
  posted,         \* the last message figma.ui.postMessage sent
  scanHost,       \* the document as it was when the last scan ran
  replLog,        \* what the last replaceInstances call did, per identifier
  matchIn,        \* the records last handed to findMatchingComponents
  matchOut,       \* what it returned
  edits,          \* user edits so far
  requests,       \* messages handled so far
  lastRequest,    \* the message the handler processed last
  hostCalls,      \* the page loads and enumerations it made, in order
  sent,           \* the messages it posted to the UI, in order
  uiScope,        \* App: scope
  uiInstances,    \* App: instances
  selectedIds,    \* App: selectedIds, a Set in insertion order
  isScanning,     \* App: isScanning
  error,          \* App: error
  progress,       \* App: progress
  showMissing,    \* App: showMissing
  allChecked,     \* App: allChecked
  effectScope,    \* the scope the scan effect last ran with
  toPlugin,       \* parent.postMessage: messages on their way to the plugin
  toUI,           \* figma.ui.postMessage: messages on their way to the UI
  latestResult    \* the records of the scan-result the UI received last

hostVars == <<curPage, selection, pagesLoaded, instName, instMain, compName,
              compParent, compRemoved, compRemote, compType>>
docVars == <<instName, instMain, compName,
             compParent, compRemoved, compRemote, compType>>
handlerVars == <<lastRequest, hostCalls, sent>>
vars == <<curPage, selection, pagesLoaded, instName, instMain, compName,
          compParent, compRemoved, compRemote, compType, pluginOpen, posted,
          scanHost, replLog, matchIn, matchOut, edits, requests,
          lastRequest, hostCalls, sent, uiScope, uiInstances, selectedIds,
          isScanning, error, progress, showMissing, allChecked, effectScope,
          toPlugin, toUI, latestResult>>
\* the state of the App component
appVars == <<uiScope, uiInstances, selectedIds, isScanning, error, progress,
             showMissing, allChecked, effectScope, latestResult>>
\* the two message channels between the UI and the plugin
channelVars == <<toPlugin, toUI>>

(* String.prototype.toLowerCase on the names of the model *)
toLowerCase(s) ==
  CASE s = "Card" -> "card"
    [] s = "CARD" -> "card"
    [] s = "Car" -> "car"
    [] s = "Badge" -> "badge"
    [] s = "Missing" -> "missing"
    [] OTHER -> s

(* JavaScript's a || b on optional strings: undefined, null and "" are falsy *)
OrElse(a, b) == IF a = Undefined \/ a = NullName \/ a = "" THEN b ELSE a

\* the snapshot of the document a ghost variable keeps
HostNow == [curPage |-> curPage, instMain |-> instMain, compParent |-> compParent]
NoHost == [curPage |-> NullId, instMain |-> <<>>, compParent |-> <<>>]

(* ------------------------- the scene structure ------------------------- *)
\* every instance lives on page 1; page 2 holds components only
InstPage(i) == 1
\* node.parent: instance 1 sits on the page, instance 2 in the frame,
\* instance 3 in an unnamed group inside the frame
NodeParent(n) ==
  CASE n = 1 -> PageNode(1)
    [] n = 2 -> FrameId
    [] n = 3 -> GroupId
    [] n = GroupId -> FrameId
    [] n = FrameId -> PageNode(1)
    [] OTHER -> NullId
\* node.name of the container nodes
ContainerName(n) ==
  CASE n = FrameId -> "Frame"
    [] n = GroupId -> ""
    [] OTHER -> PageName(n - 20)

(* --------------------- findUnlinkedInstances --------------------------- *)
\* isUnlinked without the remote test
isUnlinkedIgnoringRemote(i) ==
  LET mainComponent == instMain[i] IN
    /\ mainComponent # NullId
    /\ compParent[mainComponent] = NullId
    /\ compRemoved[mainComponent] = FALSE
    /\ compType[mainComponent] = "COMPONENT"

\* the five conditions of isUnlinked
isUnlinked(i) ==
  LET mainComponent == instMain[i] IN
    /\ mainComponent # NullId
    /\ compParent[mainComponent] = NullId
    /\ compRemoved[mainComponent] = FALSE
    /\ compRemote[mainComponent] = FALSE
    /\ compType[mainComponent] = "COMPONENT"

\* the while loop that walks instance.parent up to the page
RECURSIVE ParentNameFrom(_)
ParentNameFrom(parent) ==
  IF parent = NullId \/ NodeType(parent) = "PAGE" THEN "Root"
  ELSE IF ContainerName(parent) # "" THEN ContainerName(parent)
  ELSE ParentNameFrom(NodeParent(parent))

\* the record pushed for an unlinked instance
UnlinkedRecord(i) ==
  [instanceId |-> i,
   instanceName |-> instName[i],
   pageName |-> PageName(InstPage(i)),
   parentName |-> ParentNameFrom(NodeParent(i)),
   matchedComponentId |-> NullId,
   matchedComponentName |-> NullName,
   deletedComponentName |-> compName[instMain[i]]]

\* pagesToScan: only 'current-page' selects the current page
pagesToScan(scope) ==
  IF scope = "current-page" THEN <<curPage>> ELSE Pages

\* page.findAll(node => node.type === 'INSTANCE'), in traversal order
InstancesOn(page) == SelectSeq(AllInstances, LAMBDA i: InstPage(i) = page)

RECURSIVE ScanPages(_)
ScanPages(pages) ==
  IF pages = <<>> THEN <<>>
  ELSE LET unl == SelectSeq(InstancesOn(Head(pages)), isUnlinked)
       IN [k \in 1..Len(unl) |-> UnlinkedRecord(unl[k])] \o ScanPages(Tail(pages))

findUnlinkedInstances(scope) == ScanPages(pagesToScan(scope))

(* --------------------- findMatchingComponents -------------------------- *)
\* figma.root.findAllWithCriteria({types: ['COMPONENT']}): the COMPONENT
\* nodes attached to the document, page by page
RECURSIVE ComponentsOnPages(_)
ComponentsOnPages(pages) ==
  IF pages = <<>> THEN <<>>
  ELSE SelectSeq(AllComponents,
                 LAMBDA c: compParent[c] = Head(pages) /\ compType[c] = "COMPONENT")
       \o ComponentsOnPages(Tail(pages))
\* a search that also returns components detached from the document
allComponentsWithDetached ==
  SelectSeq(AllComponents, LAMBDA c: compType[c] = "COMPONENT")
allComponentsOfCurrentPage == ComponentsOnPages(<<curPage>>)
allComponents == ComponentsOnPages(Pages)

\* the loop without the has() test: the last component of a name wins
RECURSIVE BuildComponentMapLastWins(_, _)
BuildComponentMapLastWins(comps, map) ==
  IF comps = <<>> THEN map
  ELSE LET normalizedName == toLowerCase(compName[Head(comps)])
       IN BuildComponentMapLastWins(Tail(comps),
            [n \in DOMAIN map \cup {normalizedName} |->
               IF n = normalizedName THEN Head(comps) ELSE map[n]])

\* the loop that fills componentMap: only the first component of each
\* lower-cased name is stored
RECURSIVE BuildComponentMap(_, _)
BuildComponentMap(comps, map) ==
  IF comps = <<>> THEN map
  ELSE LET normalizedName == toLowerCase(compName[Head(comps)])
       IN BuildComponentMap(Tail(comps),
            IF normalizedName \in DOMAIN map THEN map
            ELSE [n \in DOMAIN map \cup {normalizedName} |->
                    IF n = normalizedName THEN Head(comps) ELSE map[n]])
EmptyMap == [n \in {} |-> NullId]
componentMap == BuildComponentMap(allComponents, EmptyMap)
\* componentMap.get(key); NullId stands for undefined
componentMapGet(key) ==
  IF key \in DOMAIN componentMap THEN componentMap[key] ELSE NullId

\* the callback comparing names without lower-casing the search name
MatchOneCaseSensitive(instance) ==
  LET searchName == OrElse(instance.deletedComponentName, instance.instanceName)
      matchedComponent == componentMapGet(searchName)
  IN IF matchedComponent # NullId
     THEN [instance EXCEPT !.matchedComponentId = matchedComponent,
                           !.matchedComponentName = compName[matchedComponent]]
     ELSE instance

\* the callback of unlinkedInstances.map
MatchOne(instance) ==
  LET searchName == OrElse(instance.deletedComponentName, instance.instanceName)
      normalizedSearchName == toLowerCase(searchName)
      matchedComponent == componentMapGet(normalizedSearchName)
  IN IF matchedComponent # NullId
     THEN [instance EXCEPT !.matchedComponentId = matchedComponent,
                           !.matchedComponentName = compName[matchedComponent]]
     ELSE instance

\* a matcher that returns only the records it could match
findMatchingComponentsMatchedOnly(unlinkedInstances) ==
  SelectSeq([k \in 1..Len(unlinkedInstances) |-> MatchOne(unlinkedInstances[k])],
            LAMBDA r: r.matchedComponentId # NullId)

findMatchingComponents(unlinkedInstances) ==
  [k \in 1..Len(unlinkedInstances) |-> MatchOne(unlinkedInstances[k])]

(* -------------------------- replaceInstances --------------------------- *)
\* allComponents.find(comp => comp.name.toLowerCase() === searchName.toLowerCase())
RECURSIVE FindComponent(_, _)
FindComponent(comps, searchName) ==
  IF comps = <<>> THEN NullId
  ELSE IF toLowerCase(compName[Head(comps)]) = toLowerCase(searchName) THEN Head(comps)
  ELSE FindComponent(Tail(comps), searchName)

\* new Map(unlinkedInstances.map(inst => [inst.instanceId, inst])).get(id):
\* the record of the last entry with that id, or Undefined
RECURSIVE MapGetDeletedName(_, _)
MapGetDeletedName(records, id) ==
  IF records = <<>> THEN Undefined
  ELSE IF records[Len(records)].instanceId = id
       THEN records[Len(records)].deletedComponentName
  ELSE MapGetDeletedName(SubSeq(records, 1, Len(records) - 1), id)

\* one pass of the for loop: what happens to one identifier.  throws says
\* where the host throws for this identifier: "lookup" (getNodeByIdAsync),
\* "swap" (swapComponent) or "no"; a throw lands in the catch of the pass.
ReplaceOne(instanceId, unlinkedRecords, throws) ==
  IF throws = "lookup" THEN [id |-> instanceId, outcome |-> "threw", target |-> NullId]
  ELSE IF NodeType(instanceId) # "INSTANCE"
  THEN [id |-> instanceId, outcome |-> "skipped", target |-> NullId]
  ELSE LET searchName == OrElse(MapGetDeletedName(unlinkedRecords, instanceId),
                                instName[instanceId])
           matchedComponent == FindComponent(allComponents, searchName)
       IN IF matchedComponent = NullId
          THEN [id |-> instanceId, outcome |-> "nomatch", target |-> NullId]
          ELSE IF throws = "swap"
          THEN [id |-> instanceId, outcome |-> "threw", target |-> matchedComponent]
          ELSE [id |-> instanceId, outcome |-> "swapped", target |-> matchedComponent]

\* the loop with successCount++ before swapComponent: a swap that throws
\* is counted
RECURSIVE ReplaceLoopCountingAttempts(_, _, _, _, _)
ReplaceLoopCountingAttempts(instanceIds, k, unlinkedRecords, throws, acc) ==
  IF k > Len(instanceIds) THEN acc
  ELSE LET pass == ReplaceOne(instanceIds[k], unlinkedRecords, throws[k])
           swapped == pass.outcome = "swapped"
           attempted == pass.target # NullId
       IN ReplaceLoopCountingAttempts(instanceIds, k + 1, unlinkedRecords, throws,
            [successCount |-> IF attempted THEN acc.successCount + 1
                              ELSE acc.successCount,
             main |-> IF swapped THEN [acc.main EXCEPT ![pass.id] = pass.target]
                      ELSE acc.main,
             log |-> Append(acc.log, pass),
             raised |-> FALSE])

\* the loop that counts a match without calling swapComponent
RECURSIVE ReplaceLoopWithoutSwap(_, _, _, _, _)
ReplaceLoopWithoutSwap(instanceIds, k, unlinkedRecords, throws, acc) ==
  IF k > Len(instanceIds) THEN acc
  ELSE LET pass == ReplaceOne(instanceIds[k], unlinkedRecords, throws[k])
           swapped == pass.outcome = "swapped"
       IN ReplaceLoopWithoutSwap(instanceIds, k + 1, unlinkedRecords, throws,
            [successCount |-> IF swapped THEN acc.successCount + 1 ELSE acc.successCount,
             main |-> acc.main,
             log |-> Append(acc.log, pass),
             raised |-> FALSE])

\* the for loop over instanceIds, from position k on; acc carries
\* successCount, the main components as swapped so far, and the log
RECURSIVE ReplaceLoop(_, _, _, _, _)
ReplaceLoop(instanceIds, k, unlinkedRecords, throws, acc) ==
  IF k > Len(instanceIds) THEN acc
  ELSE LET pass == ReplaceOne(instanceIds[k], unlinkedRecords, throws[k])
           swapped == pass.outcome = "swapped"
       IN ReplaceLoop(instanceIds, k + 1, unlinkedRecords, throws,
            [successCount |-> IF swapped THEN acc.successCount + 1 ELSE acc.successCount,
             main |-> IF swapped THEN [acc.main EXCEPT ![pass.id] = pass.target]
                      ELSE acc.main,
             log |-> Append(acc.log, pass),
             raised |-> FALSE])

\* the loop with the try around it instead of inside it: the first throw
\* ends the call
RECURSIVE ReplaceLoopAborting(_, _, _, _, _)
ReplaceLoopAborting(instanceIds, k, unlinkedRecords, throws, acc) ==
  IF k > Len(instanceIds) THEN acc
  ELSE LET pass == ReplaceOne(instanceIds[k], unlinkedRecords, throws[k])
           swapped == pass.outcome = "swapped"
       IN IF pass.outcome = "threw"
          THEN [acc EXCEPT !.log = Append(acc.log, pass), !.raised = TRUE]
          ELSE ReplaceLoopAborting(instanceIds, k + 1, unlinkedRecords, throws,
                 [successCount |-> IF swapped THEN acc.successCount + 1
                                   ELSE acc.successCount,
                  main |-> IF swapped THEN [acc.main EXCEPT ![pass.id] = pass.target]
                           ELSE acc.main,
                  log |-> Append(acc.log, pass),
                  raised |-> FALSE])

replaceInstancesAborting(instanceIds, unlinkedRecords, throws) ==
  LET r == ReplaceLoopAborting(instanceIds, 1, unlinkedRecords, throws,
             [successCount |-> 0, main |-> instMain, log |-> <<>>, raised |-> FALSE])
  IN [successCount |-> r.successCount, totalCount |-> Len(instanceIds),
      main |-> r.main, log |-> r.log, raised |-> r.raised]

\* replaceInstances: {successCount, totalCount}, with what it did to the document
replaceInstances(instanceIds, unlinkedRecords, throws) ==
  LET r == ReplaceLoop(instanceIds, 1, unlinkedRecords, throws,
             [successCount |-> 0, main |-> instMain, log |-> <<>>, raised |-> FALSE])
  IN [successCount |-> r.successCount, totalCount |-> Len(instanceIds),
      main |-> r.main, log |-> r.log, raised |-> r.raised]

(* ------------------------------ messages ------------------------------- *)
Scopes == {"current-page", "entire-document", "project"}

NoMessage == [type |-> "none", instances |-> <<>>, successCount |-> 0, totalCount |-> 0]
ScanResult(instances) ==
  [type |-> "scan-result", instances |-> instances, successCount |-> 0, totalCount |-> 0]
ReplaceComplete(successCount, totalCount) ==
  [type |-> "replace-complete", instances |-> <<>>,
   successCount |-> successCount, totalCount |-> totalCount]
\* the catch of the handler: message is error.message, or a fixed text for
\* a thrown value that is no Error
ErrorMessage ==
  [type |-> "error", instances |-> <<>>, successCount |-> 0, totalCount |-> 0,
   message |-> "thrown"]

\* what the catch of the handler posts
CatchPostsNothing == <<>>
CatchPosts == <<ErrorMessage>>

NoScan == [scope |-> "none", host |-> NoHost]
NoReplace == [ids |-> <<>>, log |-> <<>>, host |-> NoHost, after |-> <<>>]
NoRequest ==
  [type |-> "none", scope |-> "none", id |-> NullId, fault |-> "none",
   loadedBefore |-> FALSE]
Request(type, scope, id, fault) ==
  [type |-> type, scope |-> scope, id |-> id, fault |-> fault,
   loadedBefore |-> pagesLoaded]

\* the host calls that load or enumerate pages
LoadAllPages == [call |-> "loadAllPagesAsync", page |-> NullId]
FindAll(page) == [call |-> "findAll", page |-> page]
FindAllWithCriteria == [call |-> "findAllWithCriteria", page |-> NullId]

\* findUnlinkedInstances: the load of line 15, then page.findAll per page
ScanCalls(scope) ==
  (IF scope = "entire-document" THEN <<LoadAllPages>> ELSE <<>>)
    \o [k \in 1..Len(pagesToScan(scope)) |-> FindAll(pagesToScan(scope)[k])]

\* the same, cut short by a getMainComponentAsync that throws on the first
\* page that holds an instance
RECURSIVE FindAllUntilThrow(_)
FindAllUntilThrow(pages) ==
  IF pages = <<>> THEN <<>>
  ELSE IF InstancesOn(Head(pages)) # <<>> THEN <<FindAll(Head(pages))>>
  ELSE <<FindAll(Head(pages))>> \o FindAllUntilThrow(Tail(pages))
ScanCallsUntilThrow(scope) ==
  (IF scope = "entire-document" THEN <<LoadAllPages>> ELSE <<>>)
    \o FindAllUntilThrow(pagesToScan(scope))

\* findMatchingComponents: the load of line 67, then the enumeration
MatchCalls == <<LoadAllPages, FindAllWithCriteria>>

\* replaceInstances: the load of line 110, then one enumeration for every
\* identifier that gets as far as line 124
ReplaceCalls(log, throws) ==
  <<LoadAllPages>> \o
  [k \in 1..Cardinality({j \in 1..Len(log) :
                           log[j].outcome # "skipped" /\ throws[j] # "lookup"})
     |-> FindAllWithCriteria]

\* where a scan can throw: resolving a main component, enumerating components
ScanFaults == {"getMainComponentAsync", "findAllWithCriteria"}

\* sequences over S of length at most n
SeqUpTo(S, n) == UNION {[1..k -> S] : k \in 0..n}

\* where the host throws during one replaceInstances call: nowhere, or at
\* the lookups or at the swaps of a set of positions
ThrowChoices(n) ==
  {[k \in 1..n |-> "no"]} \cup
  {[k \in 1..n |-> IF k \in bad THEN kind ELSE "no"] :
     bad \in (SUBSET (1..n)) \ {{}}, kind \in {"lookup", "swap"}}

(* ------------------------------- Init ---------------------------------- *)
\* useState initial values of App, nothing posted yet
AppInit ==
  /\ uiScope = "current-page"
  /\ uiInstances = <<>>
  /\ selectedIds = <<>>
  /\ isScanning = TRUE
  /\ error = NullName
  /\ progress = NullName
  /\ showMissing = FALSE
  /\ allChecked = FALSE
  /\ effectScope = "none"
  /\ toPlugin = <<>>
  /\ toUI = <<>>
  /\ latestResult = <<>>

Init ==
  /\ curPage = 1
  /\ selection = {}
  /\ pagesLoaded = FALSE
  /\ instName = (1 :> "Card") @@ (2 :> "Car") @@ (3 :> "Badge")
  /\ instMain \in {m \in [Instances -> Components \cup {NullId}] :
                     /\ m[1] \in {11, 13}
                     /\ m[2] = 13
                     /\ m[3] \in {NullId, 14, 15, 16, 17}}
  /\ compName \in {n \in [Components -> Names] :
                     /\ n[11] = "Card"
                     /\ n[12] = "card"
                     /\ n[13] = "CARD"
                     /\ n[14] = "Missing"
                     /\ n[15] = "Card" /\ n[16] = "Card" /\ n[17] = "Card"}
  /\ compParent = [c \in Components |-> IF c = 11 THEN 2 ELSE IF c = 12 THEN 1 ELSE NullId]
  /\ compRemoved = [c \in Components |-> c = 15]
  /\ compRemote = [c \in Components |-> c = 16]
  /\ compType = [c \in Components |-> IF c = 17 THEN "COMPONENT_SET" ELSE "COMPONENT"]
  /\ pluginOpen = TRUE
  /\ posted = NoMessage
  /\ scanHost = NoScan
  /\ replLog = NoReplace
  /\ matchIn = <<>>
  /\ matchOut = <<>>
  /\ edits = 0
  /\ requests = 0
  /\ lastRequest = NoRequest
  /\ hostCalls = <<>>
  /\ sent = <<>>
  /\ AppInit

(* --------------------------- figma.ui.onmessage ------------------------ *)
\* a scan that applies its matches to the document
HandleScanRelinking(scope) ==
  /\ pluginOpen /\ requests < MaxRequests
  /\ requests' = requests + 1
  /\ LET unlinkedInstances == findUnlinkedInstances(scope)
         matchedInstances == findMatchingComponents(unlinkedInstances)
         hit(i) == {k \in 1..Len(matchedInstances) :
                      /\ matchedInstances[k].instanceId = i
                      /\ matchedInstances[k].matchedComponentId # NullId}
     IN /\ posted' = ScanResult(matchedInstances)
        /\ matchIn' = unlinkedInstances
        /\ matchOut' = matchedInstances
        /\ instMain' = [i \in Instances |->
                          IF hit(i) = {} THEN instMain[i]
                          ELSE matchedInstances[CHOOSE k \in hit(i) : TRUE].matchedComponentId]
  /\ pagesLoaded' = TRUE
  /\ scanHost' = [scope |-> scope, host |-> HostNow]
  /\ replLog' = NoReplace
  /\ lastRequest' = Request("scan", scope, NullId, "none")
  /\ hostCalls' = ScanCalls(scope) \o MatchCalls
  /\ sent' = <<posted'>>
  /\ UNCHANGED <<curPage, selection, instName, compName, compParent, compRemoved,
                 compRemote, compType, pluginOpen, edits>>

\* msg.type === 'scan'
HandleScan(scope) ==
  /\ pluginOpen /\ requests < MaxRequests
  /\ requests' = requests + 1
  /\ LET unlinkedInstances == findUnlinkedInstances(scope)
         matchedInstances == findMatchingComponents(unlinkedInstances)
     IN /\ posted' = ScanResult(matchedInstances)
        /\ matchIn' = unlinkedInstances
        /\ matchOut' = matchedInstances
  /\ pagesLoaded' = TRUE
  /\ scanHost' = [scope |-> scope, host |-> HostNow]
  /\ replLog' = NoReplace
  /\ lastRequest' = Request("scan", scope, NullId, "none")
  /\ hostCalls' = ScanCalls(scope) \o MatchCalls
  /\ sent' = <<posted'>>
  /\ UNCHANGED <<curPage, selection, docVars, pluginOpen, edits>>

\* a host read throws during the scan, at getMainComponentAsync of an
\* instance (line 24) or at findAllWithCriteria (line 69): nothing in the
\* two functions catches it, so the catch of the handler posts an error
HandleScanThrows(scope, at) ==
  /\ pluginOpen /\ requests < MaxRequests
  /\ requests' = requests + 1
  /\ at = "getMainComponentAsync" =>
        \E k \in 1..Len(pagesToScan(scope)) : InstancesOn(pagesToScan(scope)[k]) # <<>>
  /\ posted' = ErrorMessage
  /\ pagesLoaded' = IF at = "getMainComponentAsync"
                    THEN (pagesLoaded \/ scope = "entire-document") ELSE TRUE
  /\ scanHost' = NoScan
  /\ replLog' = NoReplace
  /\ lastRequest' = Request("scan", scope, NullId, at)
  /\ hostCalls' = IF at = "getMainComponentAsync" THEN ScanCallsUntilThrow(scope)
                  ELSE ScanCalls(scope) \o MatchCalls
  /\ sent' = CatchPosts
  /\ UNCHANGED <<curPage, selection, docVars, pluginOpen, matchIn, matchOut, edits>>

\* msg.type === 'replace'
HandleReplace(instanceIds, throws) ==
  /\ pluginOpen /\ requests < MaxRequests
  /\ requests' = requests + 1
  /\ LET unlinkedInstances == findUnlinkedInstances("current-page")
         result == replaceInstances(instanceIds, unlinkedInstances, throws)
     IN /\ instMain' = result.main
        \* the loop catches its throws, so replaceInstances never raises;
        \* a raise would land in the catch of the handler
        /\ posted' = IF result.raised THEN ErrorMessage
                     ELSE ReplaceComplete(result.successCount, result.totalCount)
        /\ pluginOpen' = result.raised
        /\ replLog' = [ids |-> instanceIds, log |-> result.log,
                       host |-> HostNow, after |-> result.main]
        /\ hostCalls' = ScanCalls("current-page") \o ReplaceCalls(result.log, throws)
  /\ pagesLoaded' = TRUE
  /\ lastRequest' = Request("replace", "none", NullId, "none")
  /\ sent' = <<posted'>>
  /\ UNCHANGED <<curPage, selection, instName, compName, compParent, compRemoved,
                 compRemote, compType, scanHost, matchIn, matchOut, edits>>

\* the re-scan of the replace branch throws: the catch posts an error
HandleReplaceThrows ==
  /\ pluginOpen /\ requests < MaxRequests
  /\ requests' = requests + 1
  /\ posted' = ErrorMessage
  /\ replLog' = NoReplace
  /\ lastRequest' = Request("replace", "none", NullId, "getMainComponentAsync")
  /\ hostCalls' = ScanCallsUntilThrow("current-page")
  /\ sent' = CatchPosts
  /\ UNCHANGED <<hostVars, pluginOpen, scanHost, matchIn, matchOut, edits>>

\* msg.type === 'select'
HandleSelect(instanceId) ==
  /\ pluginOpen /\ requests < MaxRequests
  /\ requests' = requests + 1
  /\ IF NodeType(instanceId) = "INSTANCE"
     THEN /\ curPage' = IF NodeType(NodeParent(instanceId)) = "PAGE"
                        THEN NodeParent(instanceId) - 20 ELSE curPage
          /\ selection' = {instanceId}
     ELSE UNCHANGED <<curPage, selection>>
  /\ lastRequest' = Request("select", "none", instanceId, "none")
  /\ hostCalls' = <<>>
  /\ sent' = <<>>
  /\ UNCHANGED <<pagesLoaded, docVars, pluginOpen, posted, scanHost, replLog,
                 matchIn, matchOut, edits>>

\* msg.type === 'cancel'
HandleCancel ==
  /\ pluginOpen /\ requests < MaxRequests
  /\ requests' = requests + 1
  /\ pluginOpen' = FALSE
  /\ lastRequest' = Request("cancel", "none", NullId, "none")
  /\ hostCalls' = <<>>
  /\ sent' = <<>>
  /\ UNCHANGED <<hostVars, posted, scanHost, replLog, matchIn, matchOut, edits>>

(* ------------------------------ the user ------------------------------- *)
\* Edits are modelled while the plugin runs; an edit made while it is closed
\* only changes the document the next run starts from.
\* the user runs the plugin again from the menu
RunPlugin ==
  /\ ~pluginOpen /\ requests < MaxRequests
  /\ pluginOpen' = TRUE
  /\ posted' = NoMessage
  /\ scanHost' = NoScan
  /\ replLog' = NoReplace
  /\ matchIn' = <<>>
  /\ matchOut' = <<>>
  /\ lastRequest' = NoRequest
  /\ hostCalls' = <<>>
  /\ sent' = <<>>
  /\ UNCHANGED <<hostVars, edits, requests>>

\* the user swaps an instance to an attached local component by hand
UserRelink(i, c) ==
  /\ pluginOpen /\ edits < MaxEdits
  /\ compParent[c] # NullId /\ instMain[i] # c
  /\ instMain' = [instMain EXCEPT ![i] = c]
  /\ edits' = edits + 1
  /\ UNCHANGED <<curPage, selection, pagesLoaded, instName, compName, compParent,
                 compRemoved, compRemote, compType, pluginOpen, posted, scanHost,
                 replLog, matchIn, matchOut, requests, handlerVars>>

\* the user deletes an attached component: its instances keep pointing at it
UserDeleteComponent(c) ==
  /\ pluginOpen /\ edits < MaxEdits
  /\ compParent[c] # NullId
  /\ compParent' = [compParent EXCEPT ![c] = NullId]
  /\ edits' = edits + 1
  /\ UNCHANGED <<curPage, selection, pagesLoaded, instName, instMain, compName,
                 compRemoved, compRemote, compType, pluginOpen, posted, scanHost,
                 replLog, matchIn, matchOut, requests, handlerVars>>

\* the user opens the other page
UserSwitchPage ==
  /\ pluginOpen /\ edits < MaxEdits
  /\ curPage' = 3 - curPage
  /\ edits' = edits + 1
  /\ UNCHANGED <<selection, pagesLoaded, docVars, pluginOpen, posted, scanHost,
                 replLog, matchIn, matchOut, requests, handlerVars>>

\* the handler and the user, under any message; the App is left out
Next ==
  \/ \E scope \in Scopes : HandleScan(scope) /\ UNCHANGED <<appVars, channelVars>>
  \/ \E scope \in Scopes, at \in ScanFaults :
       HandleScanThrows(scope, at) /\ UNCHANGED <<appVars, channelVars>>
  \/ \E instanceIds \in SeqUpTo(NodeIds, MaxIds) :
       \E throws \in ThrowChoices(Len(instanceIds)) :
         HandleReplace(instanceIds, throws) /\ UNCHANGED <<appVars, channelVars>>
  \/ HandleReplaceThrows /\ UNCHANGED <<appVars, channelVars>>
  \/ \E instanceId \in NodeIds :
       HandleSelect(instanceId) /\ UNCHANGED <<appVars, channelVars>>
  \/ HandleCancel /\ UNCHANGED <<appVars, channelVars>>
  \/ RunPlugin /\ UNCHANGED <<appVars, channelVars>>
  \/ \E i \in Instances, c \in Components :
       UserRelink(i, c) /\ UNCHANGED <<appVars, channelVars>>
  \/ \E c \in Components : UserDeleteComponent(c) /\ UNCHANGED <<appVars, channelVars>>
  \/ UserSwitchPage /\ UNCHANGED <<appVars, channelVars>>

Spec == Init /\ [][Next]_vars

(* ------------- findMatchingComponents called on its own ---------------- *)
\* UnlinkedInstance records as findUnlinkedInstances builds them (matched
\* fields null), deletedComponentName being optional in the type
MatchRecords ==
  {[instanceId |-> i,
    instanceName |-> n,
    pageName |-> PageName(i),
    parentName |-> IF i = 1 THEN "Root" ELSE "Frame",
    matchedComponentId |-> NullId,
    matchedComponentName |-> NullName,
    deletedComponentName |-> d] :
     i \in {1, 2}, n \in {"Card", "Car"}, d \in {Undefined, "", "CARD", "Car"}}

InitMatch ==
  /\ curPage = 1
  /\ selection = {}
  /\ pagesLoaded = FALSE
  /\ instName = (1 :> "Card") @@ (2 :> "Car") @@ (3 :> "Badge")
  /\ instMain = (1 :> 13) @@ (2 :> 13) @@ (3 :> 14)
  /\ compName \in {n \in [Components -> Names] :
                     /\ n[11] \in {"Card", "Badge", ""}
                     /\ n[12] \in {"card", "Badge"}
                     /\ n[13] = "CARD"
                     /\ n[14] = "Missing"
                     /\ n[15] = "Card" /\ n[16] = "Card" /\ n[17] = "Car"}
  /\ compParent \in {q \in [Components -> PageSet \cup {NullId}] :
                       /\ q[12] # 2
                       /\ q[17] = 1
                       /\ \A c \in {13, 14, 15, 16} : q[c] = NullId}
  /\ compRemoved = [c \in Components |-> c = 15]
  /\ compRemote = [c \in Components |-> c = 16]
  /\ compType = [c \in Components |-> IF c = 17 THEN "COMPONENT_SET" ELSE "COMPONENT"]
  /\ pluginOpen = TRUE
  /\ posted = NoMessage
  /\ scanHost = NoScan
  /\ replLog = NoReplace
  /\ matchIn = <<>>
  /\ matchOut = <<>>
  /\ edits = 0
  /\ requests = 0
  /\ lastRequest = NoRequest
  /\ hostCalls = <<>>
  /\ sent = <<>>
  /\ AppInit

\* one call of findMatchingComponents
MatchCall(records) ==
  /\ requests = 0
  /\ requests' = requests + 1
  /\ matchIn' = records
  /\ matchOut' = findMatchingComponents(records)
  /\ pagesLoaded' = TRUE
  /\ UNCHANGED <<curPage, selection, docVars, pluginOpen, posted, scanHost, replLog,
                 edits, handlerVars>>

NextMatch ==
  \E records \in SeqUpTo(MatchRecords, MaxRecords) :
    MatchCall(records) /\ UNCHANGED <<appVars, channelVars>>

SpecMatch == InitMatch /\ [][NextMatch]_vars

(* ============================== claims ================================= *)
\* a COMPONENT node of the document: attached to a page, of type COMPONENT
InDocument(parentOf, c) == parentOf[c] # NullId /\ compType[c] = "COMPONENT"
\* the place of an attached component in the traversal of figma.root
TraversalRank(parentOf, c) == 100 * parentOf[c] + c
\* the pages a scan of that scope reads, given the current page
ScannedPages(scope, page) == IF scope = "current-page" THEN {page} ELSE PageSet
\* how many records of a sequence are about instance i
RecordsOf(records, i) == Cardinality({k \in 1..Len(records) : records[k].instanceId = i})

\* the five conditions on an instance's main component, in a snapshot
UnlinkedAt(host, i) ==
  LET m == host.instMain[i] IN
    /\ m # NullId
    /\ host.compParent[m] = NullId
    /\ ~compRemoved[m]
    /\ ~compRemote[m]
    /\ compType[m] = "COMPONENT"
\* an instance that points at a component attached to the document
LinkedAt(host, i) ==
  host.instMain[i] # NullId /\ host.compParent[host.instMain[i]] # NullId
\* the name replace looks up for an instance: the deleted component's name
\* when a current-page scan finds the instance unlinked, else its own name
ReplaceKey(host, i) ==
  IF InstPage(i) = host.curPage /\ UnlinkedAt(host, i) /\ compName[host.instMain[i]] # ""
  THEN compName[host.instMain[i]] ELSE instName[i]
HasMatchAt(host, key) ==
  \E c \in Components :
    InDocument(host.compParent, c) /\ toLowerCase(compName[c]) = toLowerCase(key)
Swapped(k) == replLog.log[k].outcome = "swapped"
NoThrow == \A k \in 1..Len(replLog.log) : replLog.log[k].outcome # "threw"
\* the records of the last scan-result about instance i
ScanMatchOf(i) ==
  {matchOut[k].matchedComponentId : k \in {j \in 1..Len(matchOut) :
      matchOut[j].instanceId = i /\ matchOut[j].matchedComponentId # NullId}}

\* C1: after a scan, every INSTANCE on a scanned page has exactly one record
\* if its main component is non-null, has parent null, removed = false,
\* remote = false and type COMPONENT, and no record otherwise.
C1_Classification ==
  scanHost.scope # "none" =>
    \A i \in Instances :
      InstPage(i) \in ScannedPages(scanHost.scope, scanHost.host.curPage) =>
        LET m == scanHost.host.instMain[i]
            allFive == /\ m # NullId
                       /\ scanHost.host.compParent[m] = NullId
                       /\ ~compRemoved[m]
                       /\ ~compRemote[m]
                       /\ compType[m] = "COMPONENT"
        IN RecordsOf(matchIn, i) = IF allFive THEN 1 ELSE 0

\* a scan that met an unlinked instance and, on the same page, an instance
\* that fails exactly one of the five conditions
C1_Witness ==
  /\ scanHost.scope # "none"
  /\ RecordsOf(matchIn, 2) = 1
  /\ scanHost.host.instMain[3] \in {15, 16, 17}
  /\ scanHost.host.instMain[1] = 11
  /\ RecordsOf(matchIn, 3) = 0 /\ RecordsOf(matchIn, 1) = 0

\* the search key as the claim states it: deletedComponentName if present
KeyIfPresent(r) ==
  IF r.deletedComponentName # Undefined THEN r.deletedComponentName ELSE r.instanceName
\* the search key of the code: deletedComponentName if present and not empty
KeyIfNonEmpty(r) ==
  IF r.deletedComponentName \notin {Undefined, ""} THEN r.deletedComponentName
  ELSE r.instanceName
SomeComponentNamed(key) ==
  \E c \in Components :
    InDocument(compParent, c) /\ toLowerCase(compName[c]) = toLowerCase(key)

\* C2 as stated: a record gets a non-null matchedComponentId iff a COMPONENT
\* of the document has the lower-cased name of the key, the key being
\* deletedComponentName if present and instanceName otherwise.
C2_Original ==
  \A k \in 1..Len(matchOut) :
    (matchOut[k].matchedComponentId # NullId) <=> SomeComponentNamed(KeyIfPresent(matchIn[k]))

\* C2 amended: the key is deletedComponentName if present and not the empty
\* string, and instanceName otherwise; names that only contain or extend
\* the key never match.
C2_ExactCaseInsensitiveMatch ==
  \A k \in 1..Len(matchOut) :
    (matchOut[k].matchedComponentId # NullId) <=> SomeComponentNamed(KeyIfNonEmpty(matchIn[k]))

\* a call where "CARD" matched a component named "Card" or "card", "Car" did
\* not match it, and an empty deleted name fell back to the instance name
C2_Witness ==
  /\ Len(matchOut) = 2
  /\ matchIn[1].deletedComponentName = "CARD" /\ matchOut[1].matchedComponentId # NullId
  /\ matchIn[2].deletedComponentName = "" /\ matchIn[2].instanceName = "Car"
  /\ matchOut[2].matchedComponentId = NullId
  /\ \E c \in Components : InDocument(compParent, c) /\ compName[c] = "Card"

\* C3: when several COMPONENT nodes share a lower-cased name, a record is
\* only ever matched to the one that comes first in traversal order.
C3_FirstOccurrenceWins ==
  \A k \in 1..Len(matchOut) :
    LET m == matchOut[k].matchedComponentId IN
      m # NullId =>
        /\ InDocument(compParent, m)
        /\ \A c \in Components :
             (InDocument(compParent, c) /\ toLowerCase(compName[c]) = toLowerCase(compName[m]))
               => TraversalRank(compParent, m) <= TraversalRank(compParent, c)

\* a record matched while two components of the document share its name and
\* the one with the larger id comes first in traversal order
C3_Witness ==
  /\ Len(matchOut) >= 1
  /\ matchOut[1].matchedComponentId = 12
  /\ InDocument(compParent, 11) /\ toLowerCase(compName[11]) = "card"
  /\ compParent[11] = 2 /\ compParent[12] = 1

\* C4: the output has the length of the input and output[i] keeps the
\* instanceId, instanceName, pageName, parentName and deletedComponentName
\* of input[i].
C4_FramePreserved ==
  /\ Len(matchOut) = Len(matchIn)
  /\ \A k \in 1..Len(matchOut) :
       /\ matchOut[k].instanceId = matchIn[k].instanceId
       /\ matchOut[k].instanceName = matchIn[k].instanceName
       /\ matchOut[k].pageName = matchIn[k].pageName
       /\ matchOut[k].parentName = matchIn[k].parentName
       /\ matchOut[k].deletedComponentName = matchIn[k].deletedComponentName

\* a call on two different records of which only the second was matched
C4_Witness ==
  /\ Len(matchOut) = 2
  /\ matchIn[1] # matchIn[2]
  /\ matchOut[1].matchedComponentId = NullId /\ matchOut[1] = matchIn[1]
  /\ matchOut[2].matchedComponentId # NullId

\* C5: in a scan-result every matchedComponentId is null or a COMPONENT that
\* was attached to the document when the scan ran, neither remote nor
\* removed and not the orphaned component the instance points at; the id
\* is null exactly when the name is null.
C5_MatchIsLiveLocal ==
  posted.type = "scan-result" =>
    \A k \in 1..Len(posted.instances) :
      LET r == posted.instances[k]
          m == r.matchedComponentId
      IN /\ (m = NullId) <=> (r.matchedComponentName = NullName)
         /\ m # NullId =>
              /\ InDocument(scanHost.host.compParent, m)
              /\ ~compRemote[m] /\ ~compRemoved[m]
              /\ m # scanHost.host.instMain[r.instanceId]
              /\ r.matchedComponentName = compName[m]

\* a scan-result with one matched and one unmatched record
C5_Witness ==
  /\ posted.type = "scan-result"
  /\ \E k \in 1..Len(posted.instances) : posted.instances[k].matchedComponentId # NullId
  /\ \E k \in 1..Len(posted.instances) : posted.instances[k].matchedComponentId = NullId

\* C6: when the pass of the k-th identifier throws, every later identifier
\* is still processed, the swaps made before stay, and the call returns
\* replace-complete.
C6_PartialFailureIsolation ==
  \A k \in 1..Len(replLog.log) :
    replLog.log[k].outcome = "threw" =>
      /\ Len(replLog.log) = Len(replLog.ids)
      /\ posted.type = "replace-complete"
      /\ \A j \in 1..Len(replLog.ids) :
           /\ replLog.log[j].id = replLog.ids[j]
           /\ (j > k /\ replLog.log[j].outcome # "threw") =>
                (Swapped(j) <=> /\ NodeType(replLog.ids[j]) = "INSTANCE"
                                /\ HasMatchAt(replLog.host,
                                              ReplaceKey(replLog.host, replLog.ids[j])))
           /\ (Swapped(j) /\ \A l \in (j + 1)..Len(replLog.log) :
                               ~(Swapped(l) /\ replLog.ids[l] = replLog.ids[j]))
                => replLog.after[replLog.ids[j]] = replLog.log[j].target

\* a replace of two identifiers whose first pass threw after an earlier
\* state and whose second pass swapped
C6_Witness ==
  /\ Len(replLog.log) = 2
  /\ replLog.log[1].outcome = "threw"
  /\ Swapped(2)
  /\ replLog.after[replLog.ids[2]] # replLog.host.instMain[replLog.ids[2]]
  /\ posted = ReplaceComplete(1, 2)

\* C7: totalCount is the number of requested identifiers, successCount the
\* number of passes whose swapComponent returned; identifiers of no node,
\* of a non-INSTANCE node or of an instance without a same-named component
\* add nothing; 0 <= successCount <= totalCount.
C7_Counts ==
  posted.type = "replace-complete" =>
    /\ posted.totalCount = Len(replLog.ids)
    /\ posted.successCount = Cardinality({k \in 1..Len(replLog.log) : Swapped(k)})
    /\ posted.successCount = Cardinality({k \in 1..Len(replLog.ids) :
          /\ replLog.log[k].outcome # "threw"
          /\ NodeType(replLog.ids[k]) = "INSTANCE"
          /\ HasMatchAt(replLog.host, ReplaceKey(replLog.host, replLog.ids[k]))})
    /\ 0 <= posted.successCount /\ posted.successCount <= posted.totalCount
    /\ \A k \in 1..Len(replLog.ids) :
         (\/ NodeType(replLog.ids[k]) # "INSTANCE"
          \/ ~HasMatchAt(replLog.host, ReplaceKey(replLog.host, replLog.ids[k])))
           => ~Swapped(k)

\* a replace of a non-INSTANCE node and of an instance whose swap threw
C7_Witness ==
  /\ posted = ReplaceComplete(0, 2)
  /\ replLog.log[1].outcome = "skipped"
  /\ replLog.log[2].outcome = "threw" /\ replLog.log[2].target # NullId

\* C8: an instance the scan reported unlinked and matched, relinked to an
\* attached component before the replace, is not swapped by the replace.
C8_RelinkedIsLeftAlone ==
  \A k \in 1..Len(replLog.log) :
    LET i == replLog.ids[k] IN
      (/\ scanHost.scope # "none"
       /\ i \in Instances
       /\ ScanMatchOf(i) # {}
       /\ UnlinkedAt(scanHost.host, i)
       /\ LinkedAt(replLog.host, i))
        => ~Swapped(k)

\* C9: with the document and the current page unchanged between the scan
\* and a replace in which nothing throws, every requested instance the scan
\* matched is swapped to the component the scan named.
C9_ReplaceFollowsScan ==
  (scanHost.scope # "none" /\ replLog.ids # <<>> /\ replLog.host = scanHost.host /\ NoThrow)
    => \A k \in 1..Len(replLog.log) :
         \A m \in ScanMatchOf(replLog.ids[k]) :
           Swapped(k) /\ replLog.log[k].target = m

\* the step of a replace request
ReplaceStep == pluginOpen /\ requests' = requests + 1 /\ posted'.type = "replace-complete"
\* the instances a current-page scan reports
ScanIds ==
  LET records == findUnlinkedInstances("current-page")
  IN {records[k].instanceId : k \in 1..Len(records)}
Repointed == {replLog.log[k].id : k \in {j \in 1..Len(replLog.log) : Swapped(j)}}
\* one linked instance, one unlinked instance whose deleted name is a case
\* variant of a component of the document, one unlinked instance without a
\* same-named component, all on the current page, scanned and not changed
\* since
EndToEndScenario ==
  /\ scanHost.scope = "current-page" /\ scanHost.host = HostNow
  /\ posted.type = "scan-result"
  /\ \A i \in Instances : InstPage(i) = curPage
  /\ LinkedAt(HostNow, 1)
  /\ UnlinkedAt(HostNow, 2) /\ HasMatchAt(HostNow, compName[instMain[2]])
  /\ \A c \in Components : InDocument(compParent, c) => compName[c] # compName[instMain[2]]
  /\ UnlinkedAt(HostNow, 3) /\ ~HasMatchAt(HostNow, compName[instMain[3]])

\* C10: a current-page scan after a replace reports the instances that were
\* unlinked before it minus those it repointed; in the end-to-end scenario
\* the scan has 2 records, the replace of both answers 1 of 2 and the
\* rescan has 1 record.
C10_RescanAfterReplace ==
  [][ReplaceStep =>
       /\ ScanIds' = ScanIds \ Repointed'
       /\ (EndToEndScenario /\ replLog'.ids \in {<<2, 3>>, <<3, 2>>} /\ NoThrow')
            => /\ Len(posted.instances) = 2
               /\ posted' = ReplaceComplete(1, 2)
               /\ ScanIds' = {3}]_vars

\* the end-to-end scenario after its replace
C10_Witness ==
  /\ posted = ReplaceComplete(1, 2)
  /\ replLog.ids = <<2, 3>>
  /\ scanHost.scope = "current-page" /\ scanHost.host = replLog.host
  /\ LinkedAt(replLog.host, 1) /\ UnlinkedAt(replLog.host, 2) /\ UnlinkedAt(replLog.host, 3)
  /\ Len(matchOut) = 2
  /\ replLog.after[2] = 12
  /\ ScanIds = {3}

(* ------------------------- the App component --------------------------- *)
\* the pluginMessage objects the App posts
ScanMessage(scope) ==
  [type |-> "scan", scope |-> scope, instanceIds |-> <<>>, instanceId |-> NullId]
ReplaceMessage(instanceIds) ==
  [type |-> "replace", scope |-> "none", instanceIds |-> instanceIds, instanceId |-> NullId]
SelectMessage(instanceId) ==
  [type |-> "select", scope |-> "none", instanceIds |-> <<>>, instanceId |-> instanceId]
CancelMessage ==
  [type |-> "cancel", scope |-> "none", instanceIds |-> <<>>, instanceId |-> NullId]

\* the elements of a Set kept in insertion order
Elements(seq) == {seq[k] : k \in 1..Len(seq)}
\* instances.filter(inst => inst.matchedComponentId !== null).map(inst => inst.instanceId)
MatchedIds(records) ==
  LET hits == SelectSeq(records, LAMBDA r : r.matchedComponentId # NullId)
  IN [k \in 1..Len(hits) |-> hits[k].instanceId]
Missing(records) == SelectSeq(records, LAMBDA r : r.matchedComponentId = NullId)

\* the iframe exists, and the effects of the last render have run: React
\* flushes them before the next event is handled
AppIdle == pluginOpen /\ effectScope = uiScope
\* what the render shows: header, instance list, footer
HeaderShown == ~isScanning
ListShown == ~isScanning /\ ~showMissing
FooterShown == ~showMissing /\ ~isScanning
\* parent.postMessage
PostToPlugin(msg) == Len(toPlugin) < MaxQueue /\ toPlugin' = Append(toPlugin, msg)

\* useEffect(..., [scope]): after the first render and after every render
\* that changed scope
ScanEffect ==
  /\ pluginOpen /\ effectScope # uiScope
  /\ effectScope' = uiScope
  /\ isScanning' = TRUE
  /\ PostToPlugin(ScanMessage(uiScope))
  /\ UNCHANGED <<uiScope, uiInstances, selectedIds, error, progress, showMissing,
                 allChecked, latestResult, toUI>>

\* the scope switch of the header, disabled while isScanning
handleScopeChange ==
  /\ AppIdle /\ HeaderShown /\ ~isScanning
  /\ LET newScope == IF uiScope = "current-page" THEN "project" ELSE "current-page"
     IN /\ uiScope' = newScope
        /\ PostToPlugin(ScanMessage(newScope))
  /\ isScanning' = TRUE
  /\ uiInstances' = <<>>
  /\ selectedIds' = <<>>
  /\ error' = NullName
  /\ showMissing' = FALSE
  /\ allChecked' = FALSE
  /\ UNCHANGED <<progress, effectScope, latestResult, toUI>>

\* the refresh button of the header, disabled while isScanning
handleRefresh ==
  /\ AppIdle /\ HeaderShown /\ ~isScanning
  /\ isScanning' = TRUE
  /\ uiInstances' = <<>>
  /\ selectedIds' = <<>>
  /\ error' = NullName
  /\ progress' = NullName
  /\ showMissing' = FALSE
  /\ allChecked' = FALSE
  /\ PostToPlugin(ScanMessage(uiScope))
  /\ UNCHANGED <<uiScope, effectScope, latestResult, toUI>>

\* next.add / next.delete on a copy of the Set
SetAdd(seq, id) == IF id \in Elements(seq) THEN seq ELSE Append(seq, id)
SetDelete(seq, id) == SelectSeq(seq, LAMBDA x : x # id)

\* a click on the checkbox of a listed instance; the checkbox of a record
\* without a match is disabled
handleCheckboxChangeOfAny(instanceId) ==
  /\ AppIdle /\ ListShown
  /\ \E k \in 1..Len(uiInstances) : uiInstances[k].instanceId = instanceId
  /\ selectedIds' = IF instanceId \notin Elements(selectedIds)
                    THEN SetAdd(selectedIds, instanceId)
                    ELSE SetDelete(selectedIds, instanceId)
  /\ UNCHANGED <<uiScope, uiInstances, isScanning, error, progress, showMissing,
                 allChecked, effectScope, latestResult, channelVars>>
handleCheckboxChange(instanceId) ==
  /\ AppIdle /\ ListShown
  /\ \E k \in 1..Len(uiInstances) :
       /\ uiInstances[k].instanceId = instanceId
       /\ uiInstances[k].matchedComponentId # NullId
  /\ selectedIds' = IF instanceId \notin Elements(selectedIds)
                    THEN SetAdd(selectedIds, instanceId)
                    ELSE SetDelete(selectedIds, instanceId)
  /\ UNCHANGED <<uiScope, uiInstances, isScanning, error, progress, showMissing,
                 allChecked, effectScope, latestResult, channelVars>>

\* the "Toggle matches" button
handleToggleAll ==
  /\ AppIdle /\ HeaderShown /\ Len(uiInstances) > 0 /\ ~showMissing
  /\ IF allChecked
     THEN selectedIds' = <<>> /\ allChecked' = FALSE
     ELSE selectedIds' = MatchedIds(uiInstances) /\ allChecked' = TRUE
  /\ UNCHANGED <<uiScope, uiInstances, isScanning, error, progress, showMissing,
                 effectScope, latestResult, channelVars>>

\* the "Show missing" button, shown when more than 2 records have no match
handleToggleMissing ==
  /\ AppIdle /\ HeaderShown /\ Len(uiInstances) > 0
  /\ Len(Missing(uiInstances)) > 2
  /\ showMissing' = ~showMissing
  /\ UNCHANGED <<uiScope, uiInstances, selectedIds, isScanning, error, progress,
                 allChecked, effectScope, latestResult, channelVars>>

\* the Replace button, disabled while selectedIds is empty or isScanning
handleReplace ==
  /\ AppIdle /\ FooterShown /\ ~(Len(selectedIds) = 0 \/ isScanning)
  /\ Len(selectedIds) # 0
  /\ PostToPlugin(ReplaceMessage(selectedIds))
  /\ UNCHANGED <<appVars, toUI>>

\* the Cancel button
handleCancel ==
  /\ AppIdle /\ FooterShown
  /\ PostToPlugin(CancelMessage)
  /\ UNCHANGED <<appVars, toUI>>

\* the navigate icon of a listed instance
handleSelect(instanceId) ==
  /\ AppIdle /\ ListShown
  /\ \E k \in 1..Len(uiInstances) : uiInstances[k].instanceId = instanceId
  /\ PostToPlugin(SelectMessage(instanceId))
  /\ UNCHANGED <<appVars, toUI>>

\* the 'message' listener of the App
handleMessage ==
  /\ AppIdle /\ toUI # <<>>
  /\ toUI' = Tail(toUI)
  /\ LET msg == Head(toUI)
     IN CASE msg.type = "scan-result" ->
               /\ uiInstances' = msg.instances
               /\ isScanning' = FALSE
               /\ progress' = NullName
               /\ selectedIds' = MatchedIds(msg.instances)
               /\ allChecked' = (Len(MatchedIds(msg.instances)) > 0)
               /\ latestResult' = msg.instances
               /\ UNCHANGED <<uiScope, error, showMissing, effectScope>>
          [] msg.type = "progress" ->
               /\ progress' = msg
               /\ UNCHANGED <<uiScope, uiInstances, selectedIds, isScanning, error,
                              showMissing, allChecked, effectScope, latestResult>>
          [] msg.type = "replace-complete" ->
               /\ isScanning' = FALSE
               /\ UNCHANGED <<uiScope, uiInstances, selectedIds, error, progress,
                              showMissing, allChecked, effectScope, latestResult>>
          [] msg.type = "error" ->
               /\ error' = msg.message
               /\ isScanning' = FALSE
               /\ UNCHANGED <<uiScope, uiInstances, selectedIds, progress,
                              showMissing, allChecked, effectScope, latestResult>>
  /\ UNCHANGED toPlugin

(* ------------------- the App and the plugin together ------------------- *)
\* figma.ui.onmessage, dispatching on msg.type
OnMessage(msg) ==
  \/ msg.type = "scan" /\ HandleScan(msg.scope)
  \/ msg.type = "scan" /\ \E at \in ScanFaults : HandleScanThrows(msg.scope, at)
  \/ msg.type = "replace" /\
       \E throws \in ThrowChoices(Len(msg.instanceIds)) :
         HandleReplace(msg.instanceIds, throws)
  \/ msg.type = "replace" /\ HandleReplaceThrows
  \/ msg.type = "select" /\ HandleSelect(msg.instanceId)
  \/ msg.type = "cancel" /\ HandleCancel

\* the plugin takes the oldest message of the UI, handles it, and what it
\* posted is on its way to the UI
PluginReceive ==
  /\ toPlugin # <<>>
  /\ OnMessage(Head(toPlugin))
  /\ toPlugin' = Tail(toPlugin)
  /\ toUI' = toUI \o sent'
  /\ UNCHANGED appVars

\* the documents the plugin is opened on: the two same-named components
\* attached or both deleted
InitUI ==
  /\ curPage = 1
  /\ selection = {}
  /\ pagesLoaded = FALSE
  /\ instName = (1 :> "Card") @@ (2 :> "Car") @@ (3 :> "Badge")
  /\ instMain \in {m \in [Instances -> Components \cup {NullId}] :
                     /\ m[1] \in {11, 13}
                     /\ m[2] = 13
                     /\ m[3] \in {NullId, 14}}
  /\ compName = [c \in Components |->
                   CASE c = 11 -> "Card" [] c = 12 -> "card" [] c = 13 -> "CARD"
                     [] c = 14 -> "Missing" [] OTHER -> "Card"]
  /\ compParent \in {[c \in Components |-> IF c = 11 THEN 2 ELSE IF c = 12 THEN 1 ELSE NullId],
                      [c \in Components |-> NullId]}
  /\ compRemoved = [c \in Components |-> c = 15]
  /\ compRemote = [c \in Components |-> c = 16]
  /\ compType = [c \in Components |-> IF c = 17 THEN "COMPONENT_SET" ELSE "COMPONENT"]
  /\ pluginOpen = TRUE
  /\ posted = NoMessage
  /\ scanHost = NoScan
  /\ replLog = NoReplace
  /\ matchIn = <<>>
  /\ matchOut = <<>>
  /\ edits = 0
  /\ requests = 0
  /\ lastRequest = NoRequest
  /\ hostCalls = <<>>
  /\ sent = <<>>
  /\ AppInit

\* a step of the App leaves the plugin and the document alone
AppStep(A) ==
  A /\ UNCHANGED <<hostVars, pluginOpen, posted, scanHost, replLog, matchIn,
                   matchOut, edits, requests, handlerVars>>

NextUI ==
  \/ AppStep(ScanEffect)
  \/ AppStep(handleScopeChange)
  \/ AppStep(handleRefresh)
  \/ \E instanceId \in Instances : AppStep(handleCheckboxChange(instanceId))
  \/ AppStep(handleToggleAll)
  \/ AppStep(handleToggleMissing)
  \/ AppStep(handleReplace)
  \/ AppStep(handleCancel)
  \/ \E instanceId \in Instances : AppStep(handleSelect(instanceId))
  \/ AppStep(handleMessage)
  \/ PluginReceive

SpecUI == InitUI /\ [][NextUI]_vars

\* the host delivers a posted message and the handler runs to its end
SpecUILive == SpecUI /\ WF_vars(PluginReceive)

(* --------------------- progress, failures, answers --------------------- *)
\* the batch size the README documents
BatchSize == 50
Batches(n) == (n + BatchSize - 1) \div BatchSize
ProgressOf(msgs) == SelectSeq(msgs, LAMBDA m : m.type = "progress")
\* the instances the last scan enumerated
Enumerated ==
  {i \in Instances : InstPage(i) \in ScannedPages(scanHost.scope, scanHost.host.curPage)}
ScanAnswered == lastRequest.type = "scan" /\ lastRequest.fault = "none"

\* C11: a scan that completes has posted one progress notification for
\* every batch of 50 enumerated instances (the last of them carrying the
\* final total) before its scan-result.
C11_ProgressPerBatch ==
  ScanAnswered => Len(ProgressOf(sent)) = Batches(Cardinality(Enumerated))

\* C12: when getMainComponentAsync of one instance throws during a scan,
\* the scan still completes: a scan-result is posted (holding the records
\* of the other unlinked instances).
C12_ScanSurvivesFailedResolve ==
  (lastRequest.type = "scan" /\ lastRequest.fault = "getMainComponentAsync") =>
     \E k \in 1..Len(sent) : sent[k].type = "scan-result"

\* what the handler posted for the scan or replace request it handled last
OneAnswer ==
  /\ lastRequest.type = "scan" =>
       Len(sent) = 1 /\ sent[1].type \in {"scan-result", "error"}
  /\ lastRequest.type = "replace" =>
       Len(sent) = 1 /\ sent[1].type \in {"replace-complete", "error"}
  /\ (lastRequest.type = "scan" /\ lastRequest.fault # "none") =>
       /\ \A k \in 1..Len(sent) : sent[k].type # "scan-result"
       /\ sent[1].type = "error" /\ "message" \in DOMAIN sent[1]
  /\ (lastRequest.type = "scan" /\ lastRequest.fault = "none") =>
       sent[1] = ScanResult(matchOut)
\* the oldest message of the UI is a scan or replace request, the n+1st
\* message the running plugin gets
Pending(n) ==
  /\ pluginOpen /\ requests = n
  /\ toPlugin # <<>> /\ Head(toPlugin).type \in {"scan", "replace"}
Answered(n) ==
  /\ requests = n + 1 /\ lastRequest.type \in {"scan", "replace"}
  /\ Len(sent) = 1

\* C13: a scan request is answered by exactly one message, a scan-result or
\* an error, and a replace request by exactly one message, a
\* replace-complete or an error; a scan during which a host read throws is
\* answered by an error that carries a message, and by no scan-result; and
\* every scan or replace request that reaches the running plugin is
\* eventually answered.
C13_ExactlyOneAnswer ==
  /\ []OneAnswer
  /\ \A n \in 0..(MaxRequests - 1) : Pending(n) ~> Answered(n)

\* a scan answered with records, then a scan that threw while instances 1
\* and 3 were unlinked and in scope, its error shown by the App
C13_Witness ==
  /\ lastRequest.type = "scan" /\ lastRequest.fault = "getMainComponentAsync"
  /\ requests = 2
  /\ isUnlinked(1) /\ isUnlinked(3)
  /\ sent = <<ErrorMessage>>
  /\ error = ErrorMessage.message /\ ~isScanning
  /\ Len(latestResult) >= 2

(* ------------------------- requests of the App ------------------------- *)
\* the scan and replace requests posted and not yet answered
Outstanding == SelectSeq(toPlugin, LAMBDA msg : msg.type \in {"scan", "replace"})

\* C14: at most one scan or replace request of the App is unanswered.
C14_AtMostOneOutstanding == Len(Outstanding) <= 1

\* C15: the handler of a replace request that swapped an instance re-scans
\* and posts a scan-result with the instances that remain unlinked, and the
\* plugin stays open, so that replace can be invoked again in the session.
C15_RescanShownAfterReplace ==
  (lastRequest.type = "replace" /\ \E k \in 1..Len(replLog.log) : Swapped(k)) =>
     /\ \E k \in 1..Len(sent) : sent[k].type = "scan-result"
     /\ pluginOpen

(* --------------------- whole-document matching ------------------------- *)
\* C17: every enumeration of the components comes after a load of all
\* pages by the same handler, and a record of a current-page scan whose
\* search key is the lower-cased name of a COMPONENT attached to any page
\* of the document, the scanned one or another, is matched to a component
\* of that name.
C17_MatchSearchesWholeDocument ==
  /\ \A k \in 1..Len(hostCalls) :
       hostCalls[k] = FindAllWithCriteria =>
         \E j \in 1..(k - 1) : hostCalls[j] = LoadAllPages
  /\ (ScanAnswered /\ scanHost.scope = "current-page") =>
       \A k \in 1..Len(matchOut) :
         LET r == matchOut[k]
             m == r.matchedComponentId
         IN HasMatchAt(scanHost.host, KeyIfNonEmpty(r)) =>
              /\ m # NullId
              /\ InDocument(scanHost.host.compParent, m)
              /\ toLowerCase(compName[m]) = toLowerCase(KeyIfNonEmpty(r))

\* a scan of page 1 that matched a record to a component of page 2
C17_Witness ==
  /\ ScanAnswered /\ scanHost.scope = "current-page" /\ scanHost.host.curPage = 1
  /\ \E k \in 1..Len(matchOut) :
       /\ matchOut[k].matchedComponentId = 11
       /\ scanHost.host.compParent[11] = 2
  /\ hostCalls = <<FindAll(1), LoadAllPages, FindAllWithCriteria>>

(* --------------------------- frame of a scan --------------------------- *)
ScanStep == requests' = requests + 1 /\ lastRequest'.type = "scan"

\* C18: the step that handles a scan request, answered by scan-result or by
\* error, changes no instance's main component, no name, no parent of a
\* component and no other field of the document.
C18_ScanLeavesDocument ==
  [][ScanStep => docVars' = docVars]_vars

\* a scan answered with records, then a scan answered with an error
C18_Witness ==
  /\ lastRequest.type = "scan" /\ lastRequest.fault # "none"
  /\ posted = ErrorMessage
  /\ Len(matchOut) >= 2
  /\ \E k \in 1..Len(matchOut) : matchOut[k].matchedComponentId # NullId

(* ------------------------------- select -------------------------------- *)
SelectStep == requests' = requests + 1 /\ lastRequest'.type = "select"

\* C19: the step that handles a select request for an INSTANCE node makes
\* the page that contains the instance the current page and the instance
\* the selection, and changes no main component.
C19_SelectShowsInstance ==
  [][(SelectStep /\ NodeType(lastRequest'.id) = "INSTANCE") =>
       /\ curPage' = InstPage(lastRequest'.id)
       /\ selection' = {lastRequest'.id}
       /\ instMain' = instMain]_vars

(* ----------------------- pages loaded for a scan ----------------------- *)
\* C16: when the handler runs a scan whose scope is not the current page,
\* all pages have been loaded (by this handler or an earlier one) before
\* each page.findAll; a current-page scan enumerates figma.currentPage
\* only.
C16_PagesLoadedBeforeEnumeration ==
  /\ (lastRequest.type = "scan" /\ lastRequest.scope # "current-page") =>
       \A k \in 1..Len(hostCalls) :
         hostCalls[k].call = "findAll" =>
           \/ lastRequest.loadedBefore
           \/ \E j \in 1..(k - 1) : hostCalls[j] = LoadAllPages
  /\ (ScanAnswered /\ lastRequest.scope = "current-page") =>
       \A k \in 1..Len(hostCalls) :
         hostCalls[k].call = "findAll" => hostCalls[k].page = scanHost.host.curPage

(* --------------------------- the selection ----------------------------- *)
\* the step in which the App handles a scan-result
ScanResultStep == toUI # <<>> /\ toUI' = Tail(toUI) /\ Head(toUI).type = "scan-result"
\* the step in which the App posts a replace request
PostReplaceStep ==
  /\ Len(toPlugin') = Len(toPlugin) + 1
  /\ toPlugin'[Len(toPlugin')].type = "replace"
SelectionWithinMatches == Elements(selectedIds) \subseteq Elements(MatchedIds(uiInstances))

\* C20: selectedIds holds only identifiers of held records that have a
\* match; the step that handles a scan-result makes it exactly those of
\* the received records; and a replace request the App posts carries a
\* non-empty list of identifiers that all have a match in the scan-result
\* received last.
C20_SelectionWithinMatches ==
  /\ []SelectionWithinMatches
  /\ [][(ScanResultStep =>
             (/\ uiInstances' = Head(toUI).instances
              /\ selectedIds' = MatchedIds(uiInstances')))
         /\ (PostReplaceStep =>
               (/\ toPlugin'[Len(toPlugin')].instanceIds # <<>>
                /\ Elements(toPlugin'[Len(toPlugin')].instanceIds)
                     \subseteq Elements(MatchedIds(latestResult))))]_vars

\* a replace request for one of two matched records, next to a record
\* without a match, after the other checkbox was cleared
C20_Witness ==
  /\ toPlugin # <<>> /\ toPlugin[Len(toPlugin)].type = "replace"
  /\ Len(toPlugin[Len(toPlugin)].instanceIds) = 1
  /\ Len(MatchedIds(uiInstances)) = 2
  /\ Len(Missing(uiInstances)) = 1
  /\ selectedIds = toPlugin[Len(toPlugin)].instanceIds
  /\ uiInstances = latestResult

(* ----------------------------- toggle all ------------------------------ *)
\* the step of a click on "Toggle matches": the only step that flips
\* allChecked without taking or posting a message
ToggleAllStep == allChecked' # allChecked /\ UNCHANGED channelVars

\* C21: a click on the toggle button while some matched record is
\* unselected leaves every matched record selected, and a click while
\* every matched record is selected leaves none selected.
C21_ToggleSelectsOrClears ==
  [][ToggleAllStep =>
       IF Elements(selectedIds) # Elements(MatchedIds(uiInstances))
       THEN Elements(selectedIds') = Elements(MatchedIds(uiInstances))
       ELSE selectedIds' = <<>>]_vars

(* --------------------------- stale answers ----------------------------- *)
\* the App shows a list of records
ShowsRecords == ~isScanning /\ uiInstances # <<>>
\* a scan request of the App that the plugin has not taken yet; the
\* channels keep the order, so every message on its way to the App answers
\* a request older than this one
ScanUnanswered == \E k \in 1..Len(toPlugin) : toPlugin[k].type = "scan"

\* C22: while the App shows records, they answer its most recent scan
\* request, so no scan request of the App is unanswered; and the step that
\* handles a scan-result answering an older request than the most recent
\* one replaces neither the records nor the selection.
C22_RecordsAnswerLatestScan ==
  /\ [](ShowsRecords => ~ScanUnanswered)
  /\ [][(ScanResultStep /\ ScanUnanswered) =>
          (uiInstances' = uiInstances /\ selectedIds' = selectedIds)]_vars

====
